---- MODULE Spec2Model ----
(***************************************************************************)
(* Model of evaluate.js: the batch evaluator that normalises audio files   *)
(* with ffmpeg, streams them to the transcription service, writes the      *)
(* transcripts and appends the metrics reports to results.txt.             *)
(*                                                                         *)
(* The file system, the ffmpeg and asr-eval child processes and the        *)
(* transcription service are the environment: every call into them is a    *)
(* step whose outcome (normal return or throw) is chosen                   *)
(* nondeterministically.  Strings are sequences of one-character strings.  *)
(***************************************************************************)
EXTENDS Integers, Sequences, FiniteSets, TLC

(* ------------------------------ bounds --------------------------------- *)
\* directory entries of the audio directory at the start of a run
MaxFiles == 2
\* result events the service emits in one transcription session checked alone
MaxEvents == 2
\* result events the service emits in one batch run
MaxBatchEvents == 1
\* results carried by one result event
MaxResults == 1
\* chunks the audio source yields for one file
MaxChunks == 1
\* bytes of a file read by the audio source checked alone
MaxBytes == 4
\* the read stream's highWaterMark when the audio source is checked alone
MaxChunkSize == 3

(* ----------------------------- constants ------------------------------- *)
SUPPORTED_AUDIO_FORMATS == {"wav", "mp3", "m4a", "mp4", "flac", "ogg"}
\* the three substrings ensureAudioCompatibility looks for in the probe output
Markers == {"pcm_s16le", "16000 Hz", "mono"}

\* no file at a path, an undefined value, and null where a string, a text
\* (a sequence of characters) or a path is expected
Absent == [src |-> <<>>, form |-> "absent", markers |-> {}]
Missing == "undefined"
Null == "null"
NullText == <<"null">>
NullPath == <<>>
NoOutput == <<"absent">>

(* ------------------------------ strings -------------------------------- *)
SP == " "
IsSpace(c) == c = SP

\* String.prototype.trim: strip the white space at both ends
RECURSIVE TrimStart(_)
TrimStart(s) == IF s /= <<>> /\ IsSpace(Head(s)) THEN TrimStart(Tail(s)) ELSE s
RECURSIVE TrimEnd(_)
TrimEnd(s) ==
  IF s /= <<>> /\ IsSpace(s[Len(s)]) THEN TrimEnd(SubSeq(s, 1, Len(s) - 1)) ELSE s
Trim(s) == TrimStart(TrimEnd(s))

\* String.prototype.toLowerCase on the extensions of the model
toLowerCase(e) == IF e = "WAV" THEN "wav" ELSE e

(* ------------------------------- paths --------------------------------- *)
\* a file name is <<base name, extension>>; a path is <<directory, file name>>
Names == {<<"a", "mp3">>, <<"a", "wav">>, <<"b", "WAV">>}
Bases == {n[1] : n \in Names}
AUDIO == "audio"
OLDER == "older"
Paths == {AUDIO, OLDER} \X (Names \cup {<<n[1], "wav">> : n \in Names})

\* path.extname(p).slice(1)
extname(p) == p[2][2]
\* path.parse(file).name, path.basename(p, path.extname(p))
baseNameOf(p) == p[2][1]
\* path.join(dir, `${baseName}.wav`)
convertedPathOf(p) == <<p[1], <<baseNameOf(p), "wav">>>>
\* variant: the original is archived under the converted file's name
movedPathOf_converted(p) == <<"older", <<p[2][1], "wav">>>>

\* path.join(olderDir, path.basename(inputPath))
movedPathOf(p) == <<OLDER, p[2]>>

(* --------------------------- file contents ----------------------------- *)
\* the probe markers a file's bytes make ffmpeg print
MarkerSets == {Markers, Markers \ {"mono"}}
\* a file holds the bytes of origin src either as they were ("orig"), as
\* ffmpeg re-encoded them ("conv"), or as a failed ffmpeg run left them ("junk")
OrigContent(p, m) == [src |-> p, form |-> "orig", markers |-> m]
\* ffmpeg -ac 1 -ar 16000 -f wav -acodec pcm_s16le
ConvContent(c) == [src |-> c.src, form |-> "conv", markers |-> Markers]
JunkContent(c) == [src |-> c.src, form |-> "junk", markers |-> {}]

(* ------------------------------ state ---------------------------------- *)
VARIABLES
  argv,         \* <<process.argv[2], process.argv[3]>>
  dirs,         \* directories that exist
  fs,           \* audio directory and older/: path -> content or Absent
  refs,         \* base names with a <reference_dir>/<base>.txt
  out,          \* output/<base>.txt: base -> transcript or Absent
  results,      \* results.txt: the blocks it holds, oldest first
  resultStream, \* "none", "open", "ended"
  exitCode,     \* "running", "0" or "1"
  pc,           \* position of the single thread of control
  audioFiles,   \* processFiles: the filtered directory listing
  idx,          \* processFiles: index of the current file in audioFiles
  audioPath,    \* processFiles: what ensureAudioCompatibility returned
  transcript,   \* transcribeAudio: the accumulator; then its return value
  evaluationOutput, \* processFiles: what calculateMetrics returned
  svc,          \* the session's result stream: "idle", "open", "ended"
  inbound,      \* result events emitted and not yet consumed
  quota,        \* result events the service may still emit
  nChunks,      \* chunks of the current file
  outbound,     \* chunks the service received, in arrival order
  srcState,     \* audioStreamGenerator: "idle", "open", "done", "error"
  finals,       \* history: first alternatives of the final results emitted
  fs0,          \* history: fs, dirs, out and results when the current file's
                \* processing began
  steps,        \* history: steps ensureAudioCompatibility completed
  attempted,    \* history: files whose processing began
  readStream    \* audioStreamGenerator checked alone: the file's bytes, the
                \* read position, the highWaterMark, "open" or "ended"

vars == <<argv, dirs, fs, refs, out, results, resultStream, exitCode, pc,
          audioFiles, idx, audioPath, transcript, evaluationOutput,
          svc, inbound, quota, nChunks, outbound, srcState,
          finals, fs0, steps, attempted, readStream>>

fsVars == <<dirs, fs>>
batchVars == <<argv, readStream, refs, out, results, resultStream, exitCode, audioFiles, idx>>
sessionVars == <<transcript, svc, inbound, quota, nChunks, outbound, srcState, finals>>
histVars == <<fs0, steps, attempted>>

REFS == "refs"

\* line 124: `File: ${baseName}\n${evaluationOutput}\n`
resultString(base, report) == <<"File: ", base, "\n", report, "\n">>

\* what results.txt holds when a run starts: nothing, or what an earlier
\* run over the same directories appended
PriorResults == {<<>>, <<resultString("a", "report")>>}
NoFiles == [p \in Paths |-> Absent]
\* no read stream is looked at byte by byte in a batch run
NoStream == [data |-> <<>>, pos |-> 0, highWaterMark |-> 1, state |-> "none"]

\* the entries of the audio directory
Listing == {n \in Names : fs[<<AUDIO, n>>] /= Absent}

\* the directory trees a run can start from
InitialFs(listing, mk, old) ==
  [p \in Paths |->
     IF p[1] = AUDIO /\ p[2] \in listing
       THEN OrigContent(p, IF toLowerCase(extname(p)) = "wav" THEN mk[p[2]] ELSE {})
     ELSE IF p[1] = OLDER /\ p[2] \in old THEN OrigContent(p, {})
     ELSE Absent]

Init ==
  /\ argv \in {<<AUDIO, REFS>>, <<Missing, REFS>>, <<AUDIO, Missing>>}
  /\ \E listing \in {l \in SUBSET Names : Cardinality(l) <= MaxFiles} :
     \E mk \in [Names -> MarkerSets] :
     \E old \in SUBSET listing :
     \E d \in SUBSET {AUDIO, REFS, OLDER} :
       /\ (listing /= {} \/ OLDER \in d) => AUDIO \in d
       /\ old /= {} => OLDER \in d
       /\ \A n \in Names : toLowerCase(n[2]) /= "wav" \/ n \notin listing
                            => mk[n] = Markers \ {"mono"}
       /\ dirs = d
       /\ fs = InitialFs(listing, mk, old)
  /\ refs \in SUBSET {n[1] : n \in Listing}
  /\ refs /= {} => REFS \in dirs
  /\ out = [b \in Bases |-> NoOutput]
  /\ results \in PriorResults
  /\ resultStream = "none"
  /\ exitCode = "running"
  /\ pc = "main"
  /\ audioFiles = <<>>
  /\ idx = 0
  /\ audioPath = NullPath
  /\ transcript = NullText
  /\ evaluationOutput = Null
  /\ svc = "idle"
  /\ inbound = <<>>
  /\ quota = MaxBatchEvents
  /\ nChunks = 0
  /\ outbound = <<>>
  /\ srcState = "idle"
  /\ finals = <<>>
  /\ fs0 = [fs |-> NoFiles, dirs |-> {}, out |-> out, results |-> results]
  /\ steps = {}
  /\ attempted = {}
  /\ readStream = NoStream

(* ------------------------------- main ---------------------------------- *)
Main_noDirCheck ==
  /\ pc = "main"
  /\ IF argv[1] = Missing \/ argv[2] = Missing
       THEN pc' = "exit" /\ exitCode' = "1"
     ELSE pc' = "open" /\ UNCHANGED exitCode
  /\ UNCHANGED <<argv, readStream, dirs, fs, refs, out, results, resultStream, audioFiles,
                 idx, audioPath, evaluationOutput>>
  /\ UNCHANGED <<sessionVars, histVars>>

\* main, lines 192-218: the argument and directory checks
Main ==
  /\ pc = "main"
  /\ IF argv[1] = Missing \/ argv[2] = Missing
       THEN pc' = "exit" /\ exitCode' = "1"
     ELSE IF argv[1] \notin dirs \/ argv[2] \notin dirs
       THEN pc' = "exit" /\ exitCode' = "1"
     ELSE pc' = "open" /\ UNCHANGED exitCode
  /\ UNCHANGED <<argv, readStream, dirs, fs, refs, out, results, resultStream, audioFiles,
                 idx, audioPath, evaluationOutput>>
  /\ UNCHANGED <<sessionVars, histVars>>

(* ---------------------------- processFiles ----------------------------- *)
\* fs.createWriteStream(RESULTS_FILE, { flags: 'a' })
OpenResults_truncate ==
  /\ pc = "open"
  /\ resultStream' = "open"
  /\ results' = <<>>
  /\ pc' = "readdir"
  /\ UNCHANGED <<argv, readStream, dirs, fs, refs, out, exitCode, audioFiles,
                 idx, audioPath, evaluationOutput>>
  /\ UNCHANGED <<sessionVars, histVars>>

OpenResults ==
  /\ pc = "open"
  /\ resultStream' = "open"
  /\ pc' = "readdir"
  /\ UNCHANGED <<argv, readStream, dirs, fs, refs, out, results, exitCode, audioFiles,
                 idx, audioPath, evaluationOutput>>
  /\ UNCHANGED <<sessionVars, histVars>>

\* the entries of the audio directory with a supported extension
Supported(file) == toLowerCase(file[2]) \in SUPPORTED_AUDIO_FORMATS
Orderings(S) ==
  {s \in [1..Cardinality(S) -> S] : \A i, j \in 1..Cardinality(S) : s[i] = s[j] => i = j}

\* fs.readdirSync(audioDir).filter(...): the directory order is the file system's
ReadDir ==
  /\ pc = "readdir"
  /\ \E order \in Orderings(Listing) :
       audioFiles' = SelectSeq(order, Supported)
  /\ idx' = 1
  /\ pc' = "loop"
  /\ UNCHANGED <<argv, readStream, dirs, fs, refs, out, results, resultStream, exitCode,
                 audioPath, evaluationOutput>>
  /\ UNCHANGED <<sessionVars, histVars>>

file == audioFiles[idx]
originalAudioPath == <<AUDIO, file>>
baseName == file[1]

\* for (const file of audioFiles): the next file, or the end of the loop
LoopHead ==
  /\ pc = "loop"
  /\ IF idx <= Len(audioFiles)
       THEN /\ pc' = "ensure"
            /\ attempted' = attempted \cup {idx}
            /\ fs0' = [fs |-> fs, dirs |-> dirs, out |-> out, results |-> results]
       ELSE /\ pc' = "end"
            /\ UNCHANGED <<attempted, fs0>>
  /\ steps' = {}
  /\ audioPath' = NullPath
  /\ transcript' = NullText
  /\ evaluationOutput' = Null
  /\ finals' = <<>>
  /\ UNCHANGED <<argv, readStream, dirs, fs, refs, out, results, resultStream, exitCode,
                 audioFiles, idx>>
  /\ UNCHANGED <<svc, inbound, quota, nChunks, outbound, srcState>>

\* `continue`, and the end of the loop body
NextFile == idx + 1

\* resultStream.end()
EndResults ==
  /\ pc = "end"
  /\ resultStream' = "ended"
  /\ exitCode' = "0"
  /\ pc' = "done"
  /\ UNCHANGED <<argv, readStream, dirs, fs, refs, out, results, audioFiles,
                 idx, audioPath, evaluationOutput>>
  /\ UNCHANGED <<sessionVars, histVars>>

(* ----------------------- ensureAudioCompatibility ---------------------- *)
inputPath == originalAudioPath
ext == toLowerCase(extname(inputPath))
convertedPath == convertedPathOf(inputPath)
olderDir == OLDER
movedPath == movedPathOf(inputPath)

\* variant: the channel layout is not tested
IsCompatible_noMono(ffmpegOutput) ==
  /\ "pcm_s16le" \in ffmpegOutput
  /\ "16000 Hz" \in ffmpegOutput

\* variant: the test is inverted
IsCompatible_inverted(ffmpegOutput) ==
  ~ /\ "pcm_s16le" \in ffmpegOutput
    /\ "16000 Hz" \in ffmpegOutput
    /\ "mono" \in ffmpegOutput

\* the test of lines 156-160 on the probe output
IsCompatible(ffmpegOutput) ==
  /\ "pcm_s16le" \in ffmpegOutput
  /\ "16000 Hz" \in ffmpegOutput
  /\ "mono" \in ffmpegOutput

\* fs.renameSync(from, to) on an existing file
Rename(f, from, to) ==
  IF from = to THEN f ELSE [f EXCEPT ![to] = f[from], ![from] = Absent]

\* the catch block of lines 186-189
CatchNull(failure) ==
  /\ audioPath' = NullPath
  /\ steps' = steps \cup {failure}
  /\ pc' = "checkPath"

\* variant: a failed probe falls through to the conversion
CheckFormat_proceed ==
  /\ pc = "ensure"
  /\ IF ext = "wav"
       THEN \/ /\ fs[inputPath] /= Absent
               /\ LET ffmpegOutput == fs[inputPath].markers IN
                  IF IsCompatible(ffmpegOutput)
                    THEN /\ audioPath' = inputPath
                         /\ steps' = steps \cup {"probe", "compatible"}
                         /\ pc' = "checkPath"
                    ELSE /\ steps' = steps \cup {"probe"}
                         /\ pc' = "mkdir"
                         /\ UNCHANGED audioPath
            \/ /\ steps' = steps \cup {"probeFailed"}
               /\ pc' = "mkdir"
               /\ UNCHANGED audioPath
       ELSE /\ pc' = "mkdir"
            /\ UNCHANGED <<audioPath, steps>>
  /\ UNCHANGED <<fsVars, batchVars, sessionVars, evaluationOutput>>
  /\ UNCHANGED <<fs0, attempted>>

\* lines 149-164: a .wav file is probed, any other extension goes to conversion
CheckFormat ==
  /\ pc = "ensure"
  /\ IF ext = "wav"
       THEN \/ /\ fs[inputPath] /= Absent
               /\ LET ffmpegOutput == fs[inputPath].markers IN
                  IF IsCompatible(ffmpegOutput)
                    THEN /\ audioPath' = inputPath
                         /\ steps' = steps \cup {"probe", "compatible"}
                         /\ pc' = "checkPath"
                    ELSE /\ steps' = steps \cup {"probe"}
                         /\ pc' = "mkdir"
                         /\ UNCHANGED audioPath
            \/ CatchNull("probeFailed")
       ELSE /\ pc' = "mkdir"
            /\ UNCHANGED <<audioPath, steps>>
  /\ UNCHANGED <<fsVars, batchVars, sessionVars, evaluationOutput>>
  /\ UNCHANGED <<fs0, attempted>>

\* lines 166-169: create older/ if it does not exist
EnsureOlderDir ==
  /\ pc = "mkdir"
  /\ IF olderDir \notin dirs
       THEN \/ /\ dirs' = dirs \cup {olderDir}
               /\ steps' = steps \cup {"mkdir"}
               /\ pc' = "convert"
               /\ UNCHANGED audioPath
            \/ CatchNull("mkdirFailed") /\ UNCHANGED dirs
       ELSE /\ steps' = steps \cup {"olderExists"}
            /\ pc' = "convert"
            /\ UNCHANGED <<dirs, audioPath>>
  /\ UNCHANGED <<fs, batchVars, sessionVars, evaluationOutput>>
  /\ UNCHANGED <<fs0, attempted>>

\* variant: the original is archived before the conversion is known to succeed
Convert_archiveFirst ==
  /\ pc = "convert"
  /\ \/ /\ fs[inputPath] /= Absent
        /\ fs' = [fs EXCEPT ![convertedPath] = ConvContent(fs[inputPath])]
        /\ steps' = steps \cup {"convert"}
        /\ pc' = "move"
        /\ UNCHANGED audioPath
     \/ /\ fs[inputPath] /= Absent
        /\ fs' = Rename(fs, inputPath, movedPath)
        /\ CatchNull("convertFailed")
  /\ UNCHANGED <<dirs, batchVars, sessionVars, evaluationOutput>>
  /\ UNCHANGED <<fs0, attempted>>

\* lines 172-174: ffmpeg -y -i inputPath ... convertedPath.  A zero exit leaves
\* the re-encoded audio at convertedPath, replacing what was there; a non-zero
\* exit throws, with the tree untouched or with a partial output file.
Convert ==
  /\ pc = "convert"
  /\ \/ /\ fs[inputPath] /= Absent
        /\ fs' = [fs EXCEPT ![convertedPath] = ConvContent(fs[inputPath])]
        /\ steps' = steps \cup {"convert"}
        /\ pc' = "move"
        /\ UNCHANGED audioPath
     \/ /\ CatchNull("convertFailed")
        /\ UNCHANGED fs
     \/ /\ fs[inputPath] /= Absent
        /\ convertedPath /= inputPath
        /\ fs' = [fs EXCEPT ![convertedPath] = JunkContent(fs[inputPath])]
        /\ CatchNull("convertFailed")
  /\ UNCHANGED <<dirs, batchVars, sessionVars, evaluationOutput>>
  /\ UNCHANGED <<fs0, attempted>>

\* lines 177-179: move the original into older/
MoveOriginal ==
  /\ pc = "move"
  /\ \/ /\ fs[inputPath] /= Absent
        /\ fs' = Rename(fs, inputPath, movedPath)
        /\ steps' = steps \cup {"move"}
        /\ pc' = "promote"
        /\ UNCHANGED audioPath
     \/ /\ CatchNull("moveFailed")
        /\ UNCHANGED fs
  /\ UNCHANGED <<dirs, batchVars, sessionVars, evaluationOutput>>
  /\ UNCHANGED <<fs0, attempted>>

\* lines 182-185: rename the converted file to <baseName>.wav and return it
Promote ==
  /\ pc = "promote"
  /\ \/ /\ fs[convertedPath] /= Absent
        /\ fs' = Rename(fs, convertedPath, convertedPathOf(inputPath))
        /\ steps' = steps \cup {"promote"}
        /\ audioPath' = convertedPathOf(inputPath)
        /\ pc' = "checkPath"
     \/ /\ CatchNull("promoteFailed")
        /\ UNCHANGED fs
  /\ UNCHANGED <<dirs, batchVars, sessionVars, evaluationOutput>>
  /\ UNCHANGED <<fs0, attempted>>

\* variant: a conversion error leaves the loop
CheckAudioPath_break ==
  /\ pc = "checkPath"
  /\ IF audioPath = NullPath
       THEN /\ pc' = "end"
       ELSE /\ pc' = "transcribe"
  /\ UNCHANGED <<argv, readStream, refs, out, results, resultStream, exitCode, audioFiles, idx>>
  /\ UNCHANGED <<fsVars, sessionVars, audioPath, evaluationOutput>>
  /\ UNCHANGED <<fs0, steps, attempted>>

\* lines 105-109: a null path skips the file
CheckAudioPath ==
  /\ pc = "checkPath"
  /\ IF audioPath = NullPath
       THEN /\ idx' = NextFile
            /\ pc' = "loop"
       ELSE /\ pc' = "transcribe"
            /\ UNCHANGED idx
  /\ UNCHANGED <<argv, readStream, refs, out, results, resultStream, exitCode, audioFiles>>
  /\ UNCHANGED <<fsVars, sessionVars, audioPath, evaluationOutput>>
  /\ UNCHANGED <<fs0, steps, attempted>>

(* --------------------------- transcribeAudio --------------------------- *)
\* the texts the service puts in its results
PartialText == <<"p">>
\* result.Alternatives of a final result: none, one, or two ranked alternatives
FinalAlternatives == {<<>>, <<<<"h">>>>, <<<<>>>>, <<<<SP, "w">>, <<"h">>>>}
ResultChoices ==
  {[IsPartial |-> FALSE, Alternatives |-> a] : a \in FinalAlternatives}
    \cup {[IsPartial |-> TRUE, Alternatives |-> <<PartialText>>]}
SeqsUpTo(S, n) == UNION {[1..k -> S] : k \in 0..n}
\* what the result stream can carry: a TranscriptEvent with its Results, or an
\* event without the TranscriptEvent member
EventChoices ==
  {[TranscriptEvent |-> TRUE, Results |-> r] : r \in SeqsUpTo(ResultChoices, MaxResults)}
    \cup {[TranscriptEvent |-> FALSE, Results |-> <<>>]}

\* variant: the IsPartial test is missing
FoldResult_all(acc, result) == acc \o result.Alternatives[1] \o <<SP>>

\* lines 53-55
FoldResult(acc, result) ==
  IF ~result.IsPartial THEN acc \o result.Alternatives[1] \o <<SP>> ELSE acc
\* lines 52-56: for (const result of results)
RECURSIVE FoldResults(_, _)
FoldResults(acc, rs) ==
  IF rs = <<>> THEN acc ELSE FoldResults(FoldResult(acc, Head(rs)), Tail(rs))
\* lines 51-54 throw a TypeError on an event without TranscriptEvent and on a
\* final result without alternatives
Decodes(event) ==
  /\ event.TranscriptEvent
  /\ \A i \in 1..Len(event.Results) :
       event.Results[i].IsPartial \/ event.Results[i].Alternatives /= <<>>

\* history: the first alternatives of the final results of an event
RECURSIVE FinalTexts(_)
FinalTexts(rs) ==
  IF rs = <<>> THEN <<>>
  ELSE IF Head(rs).IsPartial \/ Head(rs).Alternatives = <<>> THEN FinalTexts(Tail(rs))
  ELSE <<Head(rs).Alternatives[1]>> \o FinalTexts(Tail(rs))

SessionIdle ==
  /\ svc' = "idle"
  /\ inbound' = <<>>
  /\ nChunks' = 0
  /\ outbound' = <<>>
  /\ srcState' = "idle"

\* variant: the catch block returns what was accumulated so far
CatchTranscribe_partial(failure) ==
  /\ transcript' = IF transcript = NullText THEN <<>> ELSE Trim(transcript)
  /\ steps' = steps \cup {failure}
  /\ pc' = "gotTranscript"
  /\ SessionIdle
  /\ UNCHANGED quota

\* the catch block of lines 60-63
CatchTranscribe(failure) ==
  /\ transcript' = NullText
  /\ steps' = steps \cup {failure}
  /\ pc' = "gotTranscript"
  /\ SessionIdle
  /\ UNCHANGED quota

StartSession_noAwait ==
  /\ pc = "transcribe"
  /\ \/ /\ \E n \in 0..MaxChunks : nChunks' = n
        /\ transcript' = <<>>
        /\ svc' = "open"
        /\ srcState' = "open"
        /\ pc' = "loop"
        /\ idx' = NextFile
        /\ UNCHANGED <<inbound, quota, outbound, steps>>
     \/ CatchTranscribe("sendRejected") /\ UNCHANGED idx
  /\ UNCHANGED <<argv, readStream, refs, out, results, resultStream, exitCode,
                 audioFiles>>
  /\ UNCHANGED <<fsVars, audioPath, evaluationOutput, finals>>
  /\ UNCHANGED <<fs0, attempted>>

\* lines 30-48: build the command and await client.send(command)
StartSession ==
  /\ pc = "transcribe"
  /\ \/ /\ \E n \in 0..MaxChunks : nChunks' = n
        /\ transcript' = <<>>
        /\ svc' = "open"
        /\ srcState' = "open"
        /\ pc' = "streaming"
        /\ UNCHANGED <<inbound, quota, outbound, steps>>
     \/ CatchTranscribe("sendRejected")
  /\ UNCHANGED <<fsVars, batchVars, audioPath, evaluationOutput, finals>>
  /\ UNCHANGED <<fs0, attempted>>

\* audioStreamGenerator, lines 22-27: the next chunk is yielded and forwarded
SendChunk ==
  /\ pc = "streaming" /\ srcState = "open" /\ svc = "open"
  /\ Len(outbound) < nChunks
  /\ outbound' = Append(outbound, Len(outbound) + 1)
  /\ UNCHANGED <<fsVars, batchVars, audioPath, evaluationOutput, pc>>
  /\ UNCHANGED <<transcript, svc, inbound, quota, nChunks, srcState, finals>>
  /\ UNCHANGED histVars

\* audioStreamGenerator: the read stream is exhausted and the generator returns
SourceEnd ==
  /\ pc = "streaming" /\ srcState = "open"
  /\ Len(outbound) = nChunks
  /\ srcState' = "done"
  /\ UNCHANGED <<fsVars, batchVars, audioPath, evaluationOutput, pc>>
  /\ UNCHANGED <<transcript, svc, inbound, quota, nChunks, outbound, finals>>
  /\ UNCHANGED histVars

\* audioStreamGenerator: the read stream throws; the request body fails, the
\* service never sees the end of the audio and the result stream cannot end
\* normally
SourceError ==
  /\ pc = "streaming" /\ srcState = "open"
  /\ srcState' = "error"
  /\ steps' = steps \cup {"chunkError"}
  /\ UNCHANGED <<fsVars, batchVars, audioPath, evaluationOutput, pc>>
  /\ UNCHANGED <<transcript, svc, inbound, quota, nChunks, outbound, finals>>
  /\ UNCHANGED <<fs0, attempted>>

\* the service puts a result event on response.TranscriptResultStream
ServiceEmit ==
  /\ pc = "streaming" /\ svc = "open"
  /\ quota > 0
  /\ \E event \in EventChoices :
       /\ inbound' = Append(inbound, event)
       /\ finals' = finals \o FinalTexts(event.Results)
  /\ quota' = quota - 1
  /\ UNCHANGED <<fsVars, batchVars, audioPath, evaluationOutput, pc>>
  /\ UNCHANGED <<transcript, svc, nChunks, outbound, srcState>>
  /\ UNCHANGED histVars

\* the service ends the result stream once the audio stream is complete
ServiceClose ==
  /\ pc = "streaming" /\ svc = "open"
  /\ srcState = "done"
  /\ svc' = "ended"
  /\ UNCHANGED <<fsVars, batchVars, audioPath, evaluationOutput, pc>>
  /\ UNCHANGED <<transcript, inbound, quota, nChunks, outbound, srcState, finals>>
  /\ UNCHANGED histVars

ReceiveEvent_afterSend ==
  /\ pc = "streaming"
  /\ inbound /= <<>>
  /\ srcState /= "open"
  /\ LET event == Head(inbound) IN
       IF Decodes(event)
         THEN /\ transcript' = FoldResults(transcript, event.Results)
              /\ inbound' = Tail(inbound)
              /\ UNCHANGED <<pc, steps, svc, quota, nChunks, outbound, srcState>>
         ELSE CatchTranscribe("decodeError")
  /\ UNCHANGED <<fsVars, batchVars, audioPath, evaluationOutput, finals>>
  /\ UNCHANGED <<fs0, attempted>>

ReceiveEvent_last ==
  /\ pc = "streaming"
  /\ inbound /= <<>>
  /\ LET event == inbound[Len(inbound)] IN
       IF Decodes(event)
         THEN /\ transcript' = FoldResults(transcript, event.Results)
              /\ inbound' = SubSeq(inbound, 1, Len(inbound) - 1)
              /\ UNCHANGED <<pc, steps, svc, quota, nChunks, outbound, srcState>>
         ELSE CatchTranscribe("decodeError")
  /\ UNCHANGED <<fsVars, batchVars, audioPath, evaluationOutput, finals>>
  /\ UNCHANGED <<fs0, attempted>>

\* lines 50-57: one iteration of the for await loop
ReceiveEvent ==
  /\ pc = "streaming"
  /\ inbound /= <<>>
  /\ LET event == Head(inbound) IN
       IF Decodes(event)
         THEN /\ transcript' = FoldResults(transcript, event.Results)
              /\ inbound' = Tail(inbound)
              /\ UNCHANGED <<pc, steps, svc, quota, nChunks, outbound, srcState>>
         ELSE CatchTranscribe("decodeError")
  /\ UNCHANGED <<fsVars, batchVars, audioPath, evaluationOutput, finals>>
  /\ UNCHANGED <<fs0, attempted>>

\* lines 57-59: the result stream has ended
ReturnTranscript ==
  /\ pc = "streaming"
  /\ inbound = <<>> /\ svc = "ended"
  /\ transcript' = Trim(transcript)
  /\ pc' = "gotTranscript"
  /\ SessionIdle
  /\ UNCHANGED <<fsVars, batchVars, audioPath, evaluationOutput, finals, quota>>
  /\ UNCHANGED histVars

\* lines 50, 60-63: the result stream throws: the connection or the service
\* failed, or the audio stream did
ReceiveError ==
  /\ pc = "streaming"
  /\ CatchTranscribe("streamError")
  /\ UNCHANGED <<fsVars, batchVars, audioPath, evaluationOutput, finals>>
  /\ UNCHANGED <<fs0, attempted>>

(* ------------------- processFiles: after transcription ----------------- *)
referencePath == baseName
outputPath == baseName

\* a JavaScript string or null used as a condition: '' and null are falsy
Truthy(v) == v /= Null /\ v /= ""
TruthyText_notNull(t) == t /= NullText

TruthyText(t) == t /= NullText /\ t /= <<>>

\* lines 112-113, 130-132: a null or empty transcript is a failed transcription
CheckTranscript ==
  /\ pc = "gotTranscript"
  /\ IF TruthyText(transcript)
       THEN pc' = "write" /\ UNCHANGED idx
       ELSE pc' = "loop" /\ idx' = NextFile
  /\ UNCHANGED <<argv, readStream, refs, out, results, resultStream, exitCode, audioFiles>>
  /\ UNCHANGED <<fsVars, sessionVars, audioPath, evaluationOutput, histVars>>

\* lines 114-115: fs.writeFileSync(outputPath, transcript); a throw is caught
\* at lines 133-135
WriteTranscript ==
  /\ pc = "write"
  /\ \/ /\ out' = [out EXCEPT ![outputPath] = transcript]
        /\ steps' = steps \cup {"write"}
        /\ pc' = "checkRef"
        /\ UNCHANGED idx
     \/ /\ steps' = steps \cup {"writeFailed"}
        /\ pc' = "loop"
        /\ idx' = NextFile
        /\ UNCHANGED out
  /\ UNCHANGED <<argv, readStream, refs, results, resultStream, exitCode, audioFiles>>
  /\ UNCHANGED <<fsVars, sessionVars, audioPath, evaluationOutput>>
  /\ UNCHANGED <<fs0, attempted>>

CheckReference_noSkip ==
  /\ pc = "checkRef"
  /\ pc' = "metrics"
  /\ UNCHANGED idx
  /\ UNCHANGED <<argv, readStream, refs, out, results, resultStream, exitCode, audioFiles>>
  /\ UNCHANGED <<fsVars, sessionVars, audioPath, evaluationOutput, histVars>>

\* lines 117-120: without a reference file the metrics step is skipped
CheckReference ==
  /\ pc = "checkRef"
  /\ IF referencePath \notin refs
       THEN pc' = "loop" /\ idx' = NextFile
       ELSE pc' = "metrics" /\ UNCHANGED idx
  /\ UNCHANGED <<argv, readStream, refs, out, results, resultStream, exitCode, audioFiles>>
  /\ UNCHANGED <<fsVars, sessionVars, audioPath, evaluationOutput, histVars>>

\* what a run of asr-eval can give execSync: the exit status and the captured
\* streams; a run that could not be spawned has no captured streams
ToolRuns ==
  [status : {"zero", "nonzero"}, stdout : {"", "report"}, stderr : {"", "errors"}]
    \cup {[status |-> "spawnError", stdout |-> Missing, stderr |-> Missing]}

\* history: how the run of asr-eval ended and which streams it wrote to
RunMarks(run) ==
  (IF run.status = "nonzero" THEN {"nonzero"} ELSE {})
    \cup (IF run.stdout /= "" THEN {"stdout"} ELSE {})
    \cup (IF run.stderr /= "" THEN {"stderr"} ELSE {})

calculateMetrics_strict(run) ==
  IF run.status = "zero" THEN run.stdout ELSE Null

\* calculateMetrics, lines 66-82, on a run that gave the streams
calculateMetrics(run) ==
  IF run.status = "zero" THEN run.stdout
  ELSE LET output == IF run.stdout /= "" THEN run.stdout ELSE run.stderr IN
       IF output /= "" THEN output ELSE Null

\* line 122: calculateMetrics(referencePath, outputPath); null.toString()
\* in its catch block throws to the catch of lines 133-135
EvaluateMetrics ==
  /\ pc = "metrics"
  /\ \E run \in ToolRuns :
       IF run.status = "spawnError"
         THEN /\ steps' = steps \cup {"metricsThrew"}
              /\ pc' = "loop"
              /\ idx' = NextFile
              /\ UNCHANGED evaluationOutput
         ELSE /\ evaluationOutput' = calculateMetrics(run)
              /\ steps' = steps \cup {"metrics"} \cup RunMarks(run)
              /\ pc' = "append"
              /\ UNCHANGED idx
  /\ UNCHANGED <<argv, readStream, refs, out, results, resultStream, exitCode, audioFiles>>
  /\ UNCHANGED <<fsVars, sessionVars, audioPath>>
  /\ UNCHANGED <<fs0, attempted>>

\* lines 123-129: a non-empty report is appended to results.txt
AppendResult ==
  /\ pc = "append"
  /\ IF Truthy(evaluationOutput)
       THEN results' = Append(results, resultString(baseName, evaluationOutput))
       ELSE UNCHANGED results
  /\ pc' = "loop"
  /\ idx' = NextFile
  /\ UNCHANGED <<argv, readStream, refs, out, resultStream, exitCode, audioFiles>>
  /\ UNCHANGED <<fsVars, sessionVars, audioPath, evaluationOutput, histVars>>

(* --------------------------- specification ----------------------------- *)
Next ==
  \/ Main
  \/ OpenResults
  \/ ReadDir
  \/ LoopHead
  \/ CheckFormat
  \/ EnsureOlderDir
  \/ Convert
  \/ MoveOriginal
  \/ Promote
  \/ CheckAudioPath
  \/ StartSession
  \/ SendChunk
  \/ SourceEnd
  \/ SourceError
  \/ ServiceEmit
  \/ ServiceClose
  \/ ReceiveEvent
  \/ ReturnTranscript
  \/ ReceiveError
  \/ CheckTranscript
  \/ WriteTranscript
  \/ CheckReference
  \/ EvaluateMetrics
  \/ AppendResult
  \/ EndResults

Spec == Init /\ [][Next]_vars

\* the event loop runs every continuation that is ready, and the environment
\* answers every call: no step stays enabled forever without being taken
FairSpec == Spec /\ WF_vars(Next)

(* ------------------- one transcription session alone ------------------- *)
\* transcribeAudio is entered for a compatible a.wav, the only file of the run
SessionInit ==
  /\ argv = <<AUDIO, REFS>>
  /\ dirs = {AUDIO, REFS}
  /\ fs = InitialFs({<<"a", "wav">>}, [n \in Names |-> Markers], {})
  /\ refs = {"a"}
  /\ out = [b \in Bases |-> NoOutput]
  /\ results = <<>>
  /\ resultStream = "open"
  /\ exitCode = "running"
  /\ pc = "transcribe"
  /\ audioFiles = <<<<"a", "wav">>>>
  /\ idx = 1
  /\ audioPath = <<AUDIO, <<"a", "wav">>>>
  /\ transcript = NullText
  /\ evaluationOutput = Null
  /\ svc = "idle"
  /\ inbound = <<>>
  /\ quota = MaxEvents
  /\ nChunks = 0
  /\ outbound = <<>>
  /\ srcState = "idle"
  /\ finals = <<>>
  /\ fs0 = [fs |-> fs, dirs |-> dirs, out |-> out, results |-> results]
  /\ steps = {"probe", "compatible"}
  /\ attempted = {1}
  /\ readStream = NoStream

SessionNext ==
  \/ StartSession
  \/ SendChunk
  \/ SourceEnd
  \/ SourceError
  \/ ServiceEmit
  \/ ServiceClose
  \/ ReceiveEvent
  \/ ReturnTranscript
  \/ ReceiveError

SessionSpec == SessionInit /\ [][SessionNext]_vars

\* the event loop runs every continuation that is ready and the service
\* answers: no step of the session stays enabled forever without being taken
FairSessionSpec == SessionSpec /\ WF_vars(SessionNext)

(* -------------------- audioStreamGenerator alone ----------------------- *)
\* the values of a byte the model distinguishes, and the files read
Bytes == {0, 255}
ByteSeqs == SeqsUpTo(Bytes, MaxBytes)

Min(a, b) == IF a <= b THEN a ELSE b

\* new Uint8Array(chunk): a copy of the buffer, element by element
Uint8Array(chunk) == [i \in 1..Len(chunk) |-> chunk[i] % 256]

\* the n bytes a read at position pos delivers
NextChunk_restart(data, pos, n) == SubSeq(data, 1, n)

NextChunk(data, pos, n) == SubSeq(data, pos + 1, pos + n)

\* line 23: fs.createReadStream(filePath, { highWaterMark }) on a file of the
\* audio directory; the generator has sent nothing yet
ChunkInit ==
  /\ argv = <<AUDIO, REFS>>
  /\ dirs = {AUDIO, REFS}
  /\ fs = InitialFs({<<"a", "wav">>}, [n \in Names |-> Markers], {})
  /\ refs = {"a"}
  /\ out = [b \in Bases |-> NoOutput]
  /\ results = <<>>
  /\ resultStream = "open"
  /\ exitCode = "running"
  /\ pc = "generator"
  /\ audioFiles = <<<<"a", "wav">>>>
  /\ idx = 1
  /\ audioPath = <<AUDIO, <<"a", "wav">>>>
  /\ transcript = <<>>
  /\ evaluationOutput = Null
  /\ svc = "open"
  /\ inbound = <<>>
  /\ quota = 0
  /\ nChunks = 0
  /\ outbound = <<>>
  /\ srcState = "open"
  /\ finals = <<>>
  /\ fs0 = [fs |-> fs, dirs |-> dirs, out |-> out, results |-> results]
  /\ steps = {"probe", "compatible"}
  /\ attempted = {1}
  /\ \E data \in ByteSeqs : \E h \in 1..MaxChunkSize :
       readStream = [data |-> data, pos |-> 0, highWaterMark |-> h,
                     state |-> "open"]

\* lines 24-26: the read stream delivers the next bytes of the file, at most
\* highWaterMark of them, and the generator yields them as one audio event
YieldChunk ==
  /\ pc = "generator"
  /\ readStream.state = "open"
  /\ readStream.pos < Len(readStream.data)
  /\ \E n \in 1..Min(readStream.highWaterMark,
                      Len(readStream.data) - readStream.pos) :
       LET chunk == NextChunk(readStream.data, readStream.pos, n) IN
         /\ outbound' = Append(outbound,
                           [AudioEvent |-> [AudioChunk |-> Uint8Array(chunk)]])
         /\ readStream' = [readStream EXCEPT !.pos = @ + n]
  /\ UNCHANGED <<argv, dirs, fs, refs, out, results, resultStream, exitCode, pc,
                 audioFiles, idx, audioPath, transcript, evaluationOutput>>
  /\ UNCHANGED <<svc, inbound, quota, nChunks, srcState, finals, histVars>>

\* line 24: the read stream is at the end of the file: the loop ends
StreamEnd ==
  /\ pc = "generator"
  /\ readStream.state = "open"
  /\ readStream.pos = Len(readStream.data)
  /\ readStream' = [readStream EXCEPT !.state = "ended"]
  /\ srcState' = "done"
  /\ UNCHANGED <<argv, dirs, fs, refs, out, results, resultStream, exitCode, pc,
                 audioFiles, idx, audioPath, transcript, evaluationOutput>>
  /\ UNCHANGED <<svc, inbound, quota, nChunks, outbound, finals, histVars>>

ChunkNext ==
  \/ YieldChunk
  \/ StreamEnd

ChunkSpec == ChunkInit /\ [][ChunkNext]_vars

(* ============================ properties =============================== *)
\* the current file's path, its place in older/ and the .wav beside it,
\* spelled out from the layout of section 6 of the specification
CurInput == <<"audio", audioFiles[idx]>>
CurArchived == <<"older", audioFiles[idx]>>
CurTarget == <<"audio", <<audioFiles[idx][1], "wav">>>>
CurIsWav == audioFiles[idx][2] \in {"wav", "WAV"}
OriginalBytes == fs0.fs[CurInput]
Returned == pc = "checkPath"

RECURSIVE JoinSp(_)
JoinSp(texts) ==
  IF texts = <<>> THEN <<>>
  ELSE IF Len(texts) = 1 THEN texts[1]
  ELSE texts[1] \o <<SP>> \o JoinSp(Tail(texts))

\* C1: a session that ends without error returns the first alternatives of
\* the final results, in the order the service delivered them, joined by
\* single spaces and trimmed; partial results contribute nothing.
C1_FinalsJoinedTrimmed ==
  (pc = "gotTranscript" /\ transcript /= NullText)
    => transcript = Trim(JoinSp(finals))

\* two finals were delivered, the first with a leading space and a second
\* alternative: the transcript is "w h"
C1_Witness ==
  /\ pc = "gotTranscript"
  /\ finals = <<<<SP, "w">>, <<"h">>>>
  /\ transcript = <<"w", SP, "h">>

\* C2 (as claimed): once normalization has archived the input, older/<name>
\* holds the input's original bytes, whether a path or an error is returned.
C2_OriginalInArchive ==
  (Returned /\ "move" \in steps) => fs[CurArchived] = OriginalBytes

\* C3: a file whose extension is not .wav is never probed and always goes to
\* the normalizer; when that returns a path, older/<original filename> holds
\* the original bytes and the returned path is <base>.wav beside the
\* original, holding the target encoding of those bytes.
C3_NonWavNormalized ==
  (Returned /\ ~CurIsWav) =>
    /\ steps \cap {"probe", "compatible", "probeFailed"} = {}
    /\ steps \cap {"mkdir", "olderExists", "mkdirFailed"} /= {}
    /\ audioPath /= NullPath =>
         /\ fs[CurArchived] = OriginalBytes
         /\ audioPath = CurTarget
         /\ fs[CurTarget] /= Absent
         /\ fs[CurTarget].src = OriginalBytes.src
         /\ fs[CurTarget].form = "conv"
         /\ fs[CurTarget].markers = Markers
         /\ fs[CurInput] = Absent

C3_Witness ==
  /\ Returned
  /\ audioFiles[idx] = <<"a", "mp3">>
  /\ audioPath = <<"audio", <<"a", "wav">>>>

\* C4 (as claimed): every file that existed before the call, other than the
\* input itself, keeps its content.
C4_NoOverwrite ==
  Returned =>
    \A p \in Paths :
      (p /= CurInput /\ fs0.fs[p] /= Absent) => fs[p] = fs0.fs[p]

\* C5: when the conversion tool fails, null is returned, the input is still
\* at its path with its bytes and no file of older/ was added or replaced;
\* and whichever step fails, null is returned.
C5_FailedConversionMovesNothing ==
  Returned =>
    /\ "convertFailed" \in steps =>
         /\ audioPath = NullPath
         /\ "move" \notin steps
         /\ fs[CurInput] = OriginalBytes
         /\ \A p \in Paths : p[1] = "older" => fs[p] = fs0.fs[p]
    /\ steps \cap {"mkdirFailed", "convertFailed", "moveFailed", "promoteFailed"} /= {}
         => audioPath = NullPath

C5_Witness ==
  /\ Returned
  /\ "convertFailed" \in steps
  /\ fs0.fs[CurArchived] /= Absent

\* C6: when the connection, event decoding or chunk production raises an
\* error, before or after final results were accumulated, transcribeAudio
\* returns null: not an empty string and not the accumulated text.
C6_ErrorGivesNull ==
  (pc = "gotTranscript"
     /\ steps \cap {"sendRejected", "chunkError", "decodeError", "streamError"} /= {})
    => transcript = NullText

\* the second event cannot be decoded after a final result was folded
C6_Witness ==
  /\ pc = "gotTranscript"
  /\ "decodeError" \in steps
  /\ finals /= <<>>
  /\ transcript = NullText

\* C7: transcribeAudio is only entered with a path whose probe showed the
\* three markers or whose conversion and both renames completed, and the file
\* at that path has the target encoding.
C7_OnlyTargetEncodingTranscribed ==
  pc \in {"transcribe", "streaming"} =>
    /\ audioPath /= NullPath
    /\ \/ "compatible" \in steps
       \/ {"convert", "move", "promote"} \subseteq steps
    /\ fs[audioPath] /= Absent
    /\ fs[audioPath].markers = {"pcm_s16le", "16000 Hz", "mono"}

C7_Witness ==
  /\ pc = "streaming"
  /\ {"probe", "convert", "move", "promote"} \subseteq steps

\* C8: for a .wav file whose probe output has the three markers the input path
\* is returned and nothing was done but the probe: no directory created, no
\* file written, moved or renamed.
C8_CompatibleWavUntouched ==
  (Returned /\ CurIsWav /\ "probeFailed" \notin steps
     /\ OriginalBytes.markers = {"pcm_s16le", "16000 Hz", "mono"})
    => /\ audioPath = CurInput
       /\ fs = fs0.fs
       /\ dirs = fs0.dirs
       /\ steps = {"probe", "compatible"}

C8_Witness ==
  /\ Returned
  /\ audioFiles[idx] = <<"a", "wav">>
  /\ steps = {"probe", "compatible"}
  /\ "older" \notin dirs

\* C9 (as claimed): after a failed probe the conversion is attempted.
C9_ProbeFailureNormalizes ==
  (Returned /\ "probeFailed" \in steps)
    => steps \cap {"convert", "convertFailed"} /= {}

\* C9 (amended): after a failed probe ensureAudioCompatibility returns null
\* with nothing created, converted or moved, and processFiles skips the file.
C9_ProbeFailureSkips ==
  "probeFailed" \in steps =>
    /\ pc \in {"checkPath", "loop"}
    /\ audioPath = NullPath
    /\ steps = {"probeFailed"}
    /\ fs = fs0.fs
    /\ dirs = fs0.dirs
    /\ pc = "loop" => idx \notin attempted /\ idx - 1 \in attempted

C9_Witness ==
  /\ pc = "loop"
  /\ "probeFailed" \in steps
  /\ idx = 2

\* C10: whatever fails while a file is processed, every file of the list is
\* attempted and processFiles reaches its end with the results stream ended.
C10_BatchRunsToEnd ==
  (pc = "readdir") ~>
    (pc = "done" /\ attempted = 1..Len(audioFiles) /\ resultStream = "ended")

\* the first of two files failed in conversion and the loop is at the second
C10_Witness ==
  /\ pc = "loop"
  /\ Len(audioFiles) = 2
  /\ idx = 2
  /\ "convertFailed" \in steps

\* the file whose iteration has just ended, while the loop is at its head
PrevBase == audioFiles[idx - 1][1]
IterationEnded == pc = "loop" /\ idx > 1

\* C11: when a file was transcribed to a non-empty text and its base name
\* has no reference file, output/<base>.txt holds the transcript, asr-eval
\* was not run, results.txt is as it was when the file began, and the loop
\* goes on to the next file; the metrics steps are only ever reached with a
\* reference file
C11_NoReferenceSkipsMetrics ==
  /\ (IterationEnded /\ "write" \in steps /\ PrevBase \notin refs) =>
       /\ transcript /= <<"null">> /\ transcript /= <<>>
       /\ out[PrevBase] = transcript
       /\ steps \cap {"metrics", "metricsThrew"} = {}
       /\ results = fs0.results
       /\ exitCode = "running"
  /\ pc \in {"metrics", "append"} => audioFiles[idx][1] \in refs

C11_Witness ==
  /\ IterationEnded /\ "write" \in steps /\ PrevBase \notin refs
  /\ idx = 2 /\ Len(audioFiles) = 2
  /\ out[PrevBase] = <<"h">>

\* C12: results.txt only grows, a block at a time: a step either leaves it as
\* it is or, when a non-empty report was computed for the current file, puts
\* exactly the block "File: <base>\n<report>\n" after what it held; what
\* an earlier run left is never removed, so a second run over the same input
\* leaves two blocks for the same base name
C12_ResultsAppendOnly ==
  [][IF pc = "append" /\ evaluationOutput \notin {"null", ""}
       THEN results' = results \o
              <<<<"File: ", audioFiles[idx][1], "\n", evaluationOutput, "\n">>>>
       ELSE results' = results]_vars

C12_Witness ==
  /\ pc = "done"
  /\ results = << <<"File: ", "a", "\n", "report", "\n">>,
                  <<"File: ", "a", "\n", "report", "\n">> >>
  /\ Len(audioFiles) = 1

\* an argument is missing or a directory it names does not exist
InvocationMissing ==
  argv[1] = "undefined" \/ argv[2] = "undefined"
    \/ argv[1] \notin dirs \/ argv[2] \notin dirs

\* C13: with an argument missing or a named directory absent the run ends
\* with exit code 1 and has neither opened results.txt nor listed or begun
\* any file; with both directories present the exit code is never 1, and
\* the run ends with exit code 0 only after every listed file was begun and
\* the results stream was ended
C13_ExitCodes ==
  /\ InvocationMissing =>
       /\ pc \in {"main", "exit"}
       /\ pc = "exit" <=> exitCode = "1"
       /\ exitCode /= "0"
       /\ resultStream = "none"
       /\ attempted = {} /\ audioFiles = <<>>
       /\ results = fs0.results /\ out = fs0.out
  /\ ~InvocationMissing =>
       /\ pc /= "exit" /\ exitCode /= "1"
       /\ exitCode = "0" <=> pc = "done"
       /\ pc = "done" => /\ attempted = 1..Len(audioFiles)
                         /\ resultStream = "ended"

C13_Witness ==
  /\ pc = "exit" /\ exitCode = "1"
  /\ argv = <<"audio", "refs">>
  /\ "audio" \in dirs /\ "refs" \notin dirs
  /\ \E p \in Paths : fs[p] /= Absent

\* the bytes of the chunks sent so far, in the order they were sent
RECURSIVE SentBytes(_)
SentBytes(events) ==
  IF events = <<>> THEN <<>>
  ELSE events[1].AudioEvent.AudioChunk \o SentBytes(Tail(events))

\* C14: for a file of any size and a highWaterMark of 1 or more, the chunks
\* the audio source has yielded are, put end to end, a prefix of the file's
\* bytes; every chunk has between 1 and highWaterMark bytes, so the source
\* yields at most as many chunks as the file has bytes; and when the source
\* has ended the chunks put end to end are exactly the file's bytes
C14_ChunksConcatenateToFile ==
  /\ Len(SentBytes(outbound)) <= Len(readStream.data)
  /\ SentBytes(outbound)
       = SubSeq(readStream.data, 1, Len(SentBytes(outbound)))
  /\ \A i \in 1..Len(outbound) :
       /\ Len(outbound[i].AudioEvent.AudioChunk) >= 1
       /\ Len(outbound[i].AudioEvent.AudioChunk) <= readStream.highWaterMark
  /\ readStream.state = "ended" => SentBytes(outbound) = readStream.data

C14_Witness ==
  /\ readStream.state = "ended"
  /\ readStream.data = <<0, 255, 255>>
  /\ readStream.highWaterMark = 2
  /\ Len(outbound) = 2
  /\ outbound[2].AudioEvent.AudioChunk = <<255>>

\* each text followed by a space, put end to end; and the first alternatives
\* of the final results of the events of a queue, oldest event first
RECURSIVE EachSpaced(_)
EachSpaced(texts) ==
  IF texts = <<>> THEN <<>>
  ELSE texts[1] \o <<" ">> \o EachSpaced(Tail(texts))
RECURSIVE QueuedFinals(_)
QueuedFinals(events) ==
  IF events = <<>> THEN <<>>
  ELSE FinalTexts(events[1].Results) \o QueuedFinals(Tail(events))

C16_SendingNeverBlocksReceiving ==
  /\ [](pc = "streaming" /\ inbound /= <<>> => ENABLED <<ReceiveEvent>>_vars)
  /\ [](pc = "streaming" /\ srcState /= "error"
          => ENABLED <<SendChunk \/ SourceEnd \/ ServiceClose
                         \/ ReceiveEvent \/ ReturnTranscript>>_vars)
  /\ (pc = "transcribe") ~> (pc = "gotTranscript")

\* a result was consumed while a chunk is still to be sent
C16_Witness ==
  /\ pc = "streaming" /\ svc = "open" /\ srcState = "open"
  /\ nChunks = 1 /\ outbound = <<>>
  /\ transcript = <<"h", " ">>
  /\ inbound /= <<>>

\* the positions of the loop body of processFiles
InLoopBody ==
  pc \in {"ensure", "mkdir", "convert", "move", "promote", "checkPath",
          "transcribe", "streaming", "gotTranscript", "write", "checkRef",
          "metrics", "append"}

\* C17: files are processed one at a time: a transcription session is open
\* only while the one current file is being transcribed; inside the loop
\* body the files begun are exactly the first idx of the listing; and at the
\* head of the loop, where the next file begins, the files begun are exactly
\* those before it and no session, queued event or audio source is left
\* from the file before
C17_OneFileAtATime ==
  /\ (svc /= "idle" \/ srcState /= "idle" \/ inbound /= <<>>)
       => pc = "streaming"
  /\ InLoopBody => /\ idx \in 1..Len(audioFiles)
                   /\ attempted = 1..idx
  /\ pc = "loop" => /\ idx \in 1..(Len(audioFiles) + 1)
                    /\ attempted = 1..(idx - 1)
                    /\ outbound = <<>>

\* the second file's session is open after the first file was transcribed
\* and its transcript written
C17_Witness ==
  /\ pc = "streaming" /\ svc = "open" /\ idx = 2
  /\ attempted = {1, 2}
  /\ \E b \in Bases : out[b] /= <<"absent">>

\* C18: while one listed file is processed, the input, the archived original
\* and the output transcript of every other listed file stay as they were
\* when the processing of the current file began
C18_NoCrossAssetWrites ==
  InLoopBody =>
    \A j \in 1..Len(audioFiles) :
      j /= idx =>
        /\ fs[<<"audio", audioFiles[j]>>] = fs0.fs[<<"audio", audioFiles[j]>>]
        /\ fs[<<"older", audioFiles[j]>>] = fs0.fs[<<"older", audioFiles[j]>>]
        /\ out[audioFiles[j][1]] = fs0.out[audioFiles[j][1]]

\* C19: when asr-eval exited with a non-zero status, the iteration ends with
\* exactly one block appended for the file, whose report is what the tool
\* wrote to stdout or, if that was empty, what it wrote to stderr; when it
\* wrote to neither, results.txt is as it was when the file began; in every
\* case the loop goes on
C19_NonZeroExitUsesOutput ==
  (IterationEnded /\ "nonzero" \in steps) =>
    /\ results = fs0.results \o
         (IF "stdout" \in steps
            THEN <<<<"File: ", PrevBase, "\n", "report", "\n">>>>
          ELSE IF "stderr" \in steps
            THEN <<<<"File: ", PrevBase, "\n", "errors", "\n">>>>
          ELSE <<>>)
    /\ exitCode = "running"

\* the tool failed and wrote only to stderr: its errors are the report
C19_Witness ==
  /\ IterationEnded /\ "nonzero" \in steps
  /\ "stdout" \notin steps /\ "stderr" \in steps
  /\ results = fs0.results \o <<<<"File: ", PrevBase, "\n", "errors", "\n">>>>

\* C20: an empty transcript is handled as a null one: the steps after the
\* transcript test are reached only with a non-empty transcript; an
\* iteration whose transcript was empty or null ends with output/ and
\* results.txt as they were when the file began and without a run of
\* asr-eval; and an iteration that appended a block to results.txt has
\* written that file's non-empty transcript to output/<base>.txt
C20_EmptyTranscriptIsFailure ==
  /\ pc \in {"write", "checkRef", "metrics", "append"}
       => transcript \notin {<<>>, <<"null">>}
  /\ (IterationEnded /\ transcript \in {<<>>, <<"null">>})
       => /\ out = fs0.out
          /\ results = fs0.results
          /\ steps \cap {"write", "writeFailed", "metrics", "metricsThrew"} = {}
  /\ (IterationEnded /\ results /= fs0.results)
       => /\ "write" \in steps
          /\ out[PrevBase] = transcript
          /\ transcript \notin {<<>>, <<"null">>}

\* the session ended normally with one final result whose text is empty,
\* for a file that has a reference
C20_Witness ==
  /\ IterationEnded /\ transcript = <<>>
  /\ finals = << <<>> >>
  /\ PrevBase \in refs
  /\ steps \cap {"streamError", "decodeError", "sendRejected", "chunkError"} = {}

====
